---- MODULE Spec2Model ----
(***************************************************************************)
(* ImageShield: the server-side image protection pipeline                  *)
(* (server/storage.ts: processImage, generateAdversarialNoise and the      *)
(* three noise generators, cleanupTempFiles) and the two processing routes *)
(* of server/routes.ts, and the download path of the client                *)
(* (client/src/lib/image-processor.ts).                                    *)
(*                                                                         *)
(* Six specifications share the pure operators below:                      *)
(*   Spec           one call of processImage at a time, statement block by *)
(*                  statement block, entered directly or through a route;  *)
(*   SpecLifecycle  the temp files on disk, the requests that create them  *)
(*                  and the startup / hourly sweep, over a discrete clock; *)
(*   SpecSuccession cleanupTempFiles called again while, or after, the     *)
(*                  callbacks of the call at startup run;                  *)
(*   SpecFunctions  the amplitude, the placement helpers and the three     *)
(*                  noise generators, each applied to drawn arguments;     *)
(*   SpecClient     createDownloadableImage and the preview in the         *)
(*                  browser: object URLs, the canvas blob, /api/add-exif;  *)
(*   SpecConcurrent the base64 route serving requests that arrive in the   *)
(*                  same millisecond.                                      *)
(*                                                                         *)
(* Conventions.  A JavaScript string that the code inspects character by   *)
(* character (the watermark text, a numeric form field) is a sequence of   *)
(* one-character strings; a string that is only compared is a TLA+ string. *)
(* Fractional numbers are kept exact by scaling: the noise amplitude is in *)
(* units of 1/10000, positions are in half pixels.                         *)
(***************************************************************************)
EXTENDS Integers, Sequences, FiniteSets, TLC

\* ------------------------------------------------------------------ bounds

\* Math.random() is modelled as k / RandDen for k in 0 .. RandDen - 1.
RandDen == 4
\* How many requests the lifecycle specification admits.
MaxRequests == 1
\* How many firings of the hourly timer the lifecycle specification follows.
MaxSweeps == 14
\* Requests arrive during the first MaxArrivalTicks half hours after startup.
MaxArrivalTicks == 2
\* How many filesystem faults (stat or unlink failing on an existing entry)
\* the environment raises.
MaxFaults == 1

\* Calls of cleanupTempFiles after the one at startup, in the runs that call
\* it in succession.
MaxCalls == 1

\* The largest raster a noise generator is applied to on its own.
MaxWidth == 4

MaxHeight == 2

\* How many calls the client makes, one after the other.
MaxClientCalls == 2

\* How many base64 requests are in flight together.
MaxConcurrent == 2

\* ------------------------------------------------------- source images

\* An EXIF container is a set of <<key, value>> pairs, or is absent.
NoContainer == [present |-> FALSE, tags |-> {}]

Container(tags) == [present |-> TRUE, tags |-> tags]

ExifOfCamera == Container({<<"Make", "Canon">>})

ExifWithOwner == Container({<<"Make", "Canon">>, <<"Copyright", "Alice">>})

\* The files a call may be given.  A file sharp cannot decode has no other
\* property.  Decodable files are 2 x 1 RGB rasters.
SourceSamples == <<0, 100, 200, 255, 127, 128>>

Raster(fmt, exif) ==
  [decodable |-> TRUE, format |-> fmt, width |-> 2, height |-> 1,
   channels |-> 3, samples |-> SourceSamples, exif |-> exif]

CorruptFile ==
  [decodable |-> FALSE, format |-> "none", width |-> 0, height |-> 0,
   channels |-> 0, samples |-> <<>>, exif |-> NoContainer]

SourceFiles ==
  {CorruptFile}
    \cup { Raster(f, e) : f \in {"png", "jpeg", "webp"},
                          e \in {NoContainer, ExifOfCamera, ExifWithOwner} }

\* ------------------------------------------------------------ settings

\* Watermark texts: empty, plain, and one that is not well-formed XML once
\* interpolated into the SVG.
Texts == { <<>>, <<"X">>, <<"A", "&", "B">> }

Positions == {"top-left", "middle-center", "bottom-right", "center"}

WatermarkSettingsSet ==
  [text : Texts, position : Positions, opacity : {70}, fontSize : {24}]

NoSettings == [given |-> FALSE, enabled |-> FALSE, intensity |-> 0, method |-> "none"]

Intensities == {1, 5, 10}

Methods == {"gaussian", "uniform", "perlin"}

\* interface AdversarialSettings, or undefined (the parameter is optional).
AdversarialSettingsSet ==
  {NoSettings}
    \cup [given : {TRUE}, enabled : BOOLEAN, intensity : Intensities, method : Methods]

\* -------------------------------------------------- the sharp pipeline

\* sharp(imagePath): a lazy pipeline over an input; composite() and
\* withMetadata() / withExifMerge() only record options, toBuffer() runs them.
Sharp(input) ==
  [input |-> input, composite |-> <<>>, keepMetadata |-> FALSE, exifMerge |-> {}]

NoImage == Sharp(CorruptFile)

\* The tags processImage merges into IFD0.
ProtectionTags ==
  { <<"Copyright", "DO NOT USE FOR AI TRAINING">>,
    <<"Artist", "Protected Content">>,
    <<"ImageDescription", "This image is protected against AI training usage">> }

\* getExifProtectionData() of the client: the tags it reports as written.
getExifProtectionData ==
  { <<"Copyright", "DO NOT USE FOR AI TRAINING">>,
    <<"ImageDescription", "This image is not authorized for use in AI training datasets">>,
    <<"UserComment", "This image is protected and not authorized for AI training purposes">> }

Keys(tags) == { p[1] : p \in tags }

\* withExif(merge) instead: the given tags replace the whole container.
withExifReplacing(container, merge) == Container(merge)

\* What withMetadata() followed by withExifMerge(merge) leaves in the output:
\* the input's tags, the merged keys replacing those of the same name.
withExifMerge(container, merge) ==
  Container({ p \in container.tags : p[1] \notin Keys(merge) } \cup merge)

\* The metadata container toBuffer() writes: nothing unless withMetadata()
\* was called on the pipeline (sharp strips metadata by default).
OutputExif(image) ==
  IF ~image.keepMetadata THEN NoContainer
  ELSE IF image.exifMerge = {} THEN image.input.exif
  ELSE withExifMerge(image.input.exif, image.exifMerge)

\* The text is interpolated into the SVG as is: "&" or "<" in it makes the
\* overlay ill-formed XML, which the renderer rejects when the pipeline runs.
XmlWellFormed(text) == \A i \in 1..Len(text) : text[i] \notin {"&", "<"}

Renderable(svg) == XmlWellFormed(svg.text)

NoBuffer ==
  [ok |-> FALSE, format |-> "none", width |-> 0, height |-> 0, channels |-> 0,
   samples |-> <<>>, marks |-> <<>>, exif |-> NoContainer, jpegPasses |-> 0]

\* image.png().toBuffer() / image.jpeg().toBuffer(): runs the pipeline.  It
\* rejects when an overlay cannot be rendered or when the encoder fails
\* (encoderFails: the environment's choice); otherwise the input's pixels
\* with the overlays composited, encoded as fmt, a JPEG pass being lossy.
toBuffer(image, fmt, encoderFails) ==
  IF encoderFails \/ \E i \in 1..Len(image.composite) : ~Renderable(image.composite[i])
  THEN NoBuffer
  ELSE [ok |-> TRUE, format |-> fmt,
        width |-> image.input.width, height |-> image.input.height,
        channels |-> image.input.channels,
        samples |-> image.input.samples,
        marks |-> image.composite,
        exif |-> OutputExif(image),
        jpegPasses |-> IF fmt = "jpeg" THEN 1 ELSE 0]

\* ---------------------------------------------------- watermark placement

\* Positions in half pixels (the code returns `${width / 2}`, which may end
\* in .5); textWidth2 is twice the text width, fontSize * text.length.
\* getXPosition with the default label on the left column.
getXPositionDefaultLeft(position, width, textWidth2) ==
  CASE position \in {"top-center", "middle-center", "bottom-center"} -> width
    [] position \in {"top-right", "middle-right", "bottom-right"} ->
         2 * width - textWidth2 - 60
    [] OTHER -> 60

getXPosition(position, width, textWidth2) ==
  CASE position \in {"top-left", "middle-left", "bottom-left"} -> 60
    [] position \in {"top-center", "middle-center", "bottom-center"} -> width
    [] OTHER -> 2 * width - textWidth2 - 60

\* getYPosition with the top row at 30, the font size not added.
getYPositionAtMargin(position, height, fontSize) ==
  CASE position \in {"top-left", "top-center", "top-right"} -> 60
    [] position \in {"middle-left", "middle-center", "middle-right"} -> height
    [] OTHER -> 2 * height - 60

getYPosition(position, height, fontSize) ==
  CASE position \in {"top-left", "top-center", "top-right"} -> 2 * (30 + fontSize)
    [] position \in {"middle-left", "middle-center", "middle-right"} -> height
    [] OTHER -> 2 * height - 60

\* The switch of the client's addWatermarkToCanvas, <<x, y>> in half pixels;
\* textWidth is ctx.measureText(text).width.
clientPosition(position, width, height, textWidth, fontSize) ==
  << CASE position \in {"top-left", "middle-left", "bottom-left"} -> 60
       [] position \in {"top-center", "middle-center", "bottom-center"} ->
            width - textWidth
       [] OTHER -> 2 * (width - textWidth - 30),
     CASE position \in {"top-left", "top-center", "top-right"} -> 2 * (30 + fontSize)
       [] position \in {"middle-left", "middle-center", "middle-right"} -> height
       [] OTHER -> 2 * (height - 30) >>

\* The SVG overlay of processImage, by the values interpolated into it.
svgContent(settings, width, height, addExifProtection) ==
  [width |-> width, height |-> height,
   text |-> settings.text,
   opacity |-> settings.opacity,
   fontSize |-> settings.fontSize,
   x |-> getXPosition(settings.position, width, settings.fontSize * Len(settings.text)),
   y |-> getYPosition(settings.position, height, settings.fontSize),
   info |-> addExifProtection]

\* ------------------------------------------------------ noise synthesis

Max(a, b) == IF a > b THEN a ELSE b

Min(a, b) == IF a < b THEN a ELSE b

\* Math.round(num / den) for den > 0: the nearest integer, halves upwards.
MathRound(num, den) == (2 * num + den) \div (2 * den)

\* v + 128 stored in a Uint8Array without the clamp: the value wraps.
BiasedWrap(v) == (v + 128) % 256

\* Math.max(-128, Math.min(127, v)) + 128, stored in a Uint8Array.
BiasedClamp(v) == (Max(-128, Min(127, v)) + 128) % 256

\* settings.intensity * 0.019 + 0.001, the division by 10 left out.
noiseAmplitudeUndivided(intensity) == intensity * 190 + 10

\* (settings.intensity / 10) * 0.019 + 0.001, in units of 1/10000.
noiseAmplitude(intensity) == intensity * 19 + 10

\* The draws of one generator call, one per sample.  A uniform draw k stands
\* for Math.random() = k / RandDen; a gaussian draw g for a Box-Muller value
\* of g / 100 (the transform itself is not computable here), the outermost
\* values standing for the overflow of Math.log near 0.
UniformStreams(n) ==
  { [i \in 1..n |-> k] : k \in 0..(RandDen - 1) }
    \cup { [i \in 1..n |-> i % RandDen] }

GaussianDraws == {-100000000, -167, 0, 118, 100000000}

GaussianStreams(n) ==
  { [i \in 1..n |-> g] : g \in GaussianDraws }
    \cup { [i \in 1..n |-> IF i % 2 = 0 THEN 118 ELSE -167] }

Streams(method, n) ==
  IF method = "uniform" THEN UniformStreams(n)
  ELSE IF method = "perlin" THEN { [i \in 1..n |-> 0] }
  ELSE GaussianStreams(n)

\* Math.round(gaussian * amplitude * 255): the product is formed in floating
\* point, where a draw beyond the clamp range stays beyond it.
GaussianValue(g, amplitude) ==
  IF g >= 100000000 THEN 1000
  ELSE IF g <= -100000000 THEN -1000
  ELSE MathRound(g * amplitude * 255, 1000000)

generateGaussianNoise(width, height, channels, amplitude, stream) ==
  [i \in 1..(width * height * channels) |->
     BiasedClamp(GaussianValue(stream[i], amplitude))]

generateUniformNoise(width, height, channels, amplitude, stream) ==
  [i \in 1..(width * height * channels) |->
     BiasedClamp(MathRound((2 * stream[i] - RandDen) * amplitude * 255,
                           RandDen * 10000))]

\* sin and cos of t / 10000 radians, in units of 1/10000, by their Taylor
\* polynomials (exact to the unit for the coordinates of the modelled images;
\* t is a multiple of 100, so t * t is divided by 10000 without remainder).
Sin4(t) == t - (t * ((t * t) \div 10000)) \div 60000

Cos4(t) == 10000 - (t * t) \div 20000

\* The four-octave sum of sin(x * freq) * cos(y * freq) * amp, freq =
\* octave * 0.01 and amp = 1 / octave, in units of 1/10000.
PerlinValue(x, y) ==
  LET term(o) == ((Sin4(x * o * 100) * Cos4(y * o * 100)) \div 10000) \div o
  IN term(1) + term(2) + term(3) + term(4)

\* generatePerlinNoise with the coordinate taken from the sample index
\* instead of the pixel index: the channels of a pixel get different values.
generatePerlinNoiseBySample(width, height, channels, amplitude) ==
  [i \in 1..(width * height * channels) |->
     LET x == (i - 1) % width
         y == ((i - 1) \div channels) \div width
     IN BiasedClamp(MathRound(PerlinValue(x, y) * amplitude * 255, 100000000))]

generatePerlinNoise(width, height, channels, amplitude) ==
  [i \in 1..(width * height * channels) |->
     LET pixel == (i - 1) \div channels
         x == pixel % width
         y == pixel \div width
     IN BiasedClamp(MathRound(PerlinValue(x, y) * amplitude * 255, 100000000))]

\* sharp's composite with blend 'add' of a raw overlay without alpha: each
\* sample is the sum of the two samples, saturating at 255.
BlendAdd(samples, noise) ==
  [i \in 1..Len(samples) |-> Min(255, samples[i] + noise[i])]

NoNoiseRun == [invoked |-> {}, amplitude |-> 0, applied |-> FALSE]

\* generateAdversarialNoise with the inner pipeline ending in .jpeg().toBuffer()
\* instead of toBuffer(): the result is a JPEG whatever the input was.
generateAdversarialNoiseAsJpeg(imageBuffer, settings, env, stream) ==
  IF ~settings.enabled \/ env # "ok" THEN [buffer |-> imageBuffer, run |-> NoNoiseRun]
  ELSE
    LET amplitude == noiseAmplitude(settings.intensity)
        noiseBuffer ==
          generateGaussianNoise(imageBuffer.width, imageBuffer.height,
                                imageBuffer.channels, amplitude, stream)
    IN [buffer |->
          [imageBuffer EXCEPT
             !.samples = BlendAdd(imageBuffer.samples, noiseBuffer),
             !.exif = NoContainer,
             !.format = "jpeg",
             !.jpegPasses = @ + 1],
        run |-> [invoked |-> {"gaussian"}, amplitude |-> amplitude, applied |-> TRUE]]

\* generateAdversarialNoise without its try / catch and its dimension check:
\* an error inside leaves the caller without a buffer.
generateAdversarialNoiseUncaught(imageBuffer, settings, env, stream) ==
  IF ~settings.enabled THEN [buffer |-> imageBuffer, run |-> NoNoiseRun]
  ELSE IF env # "ok" THEN [buffer |-> NoBuffer, run |-> NoNoiseRun]
  ELSE [buffer |->
          [imageBuffer EXCEPT
             !.samples = BlendAdd(imageBuffer.samples,
                           generateGaussianNoise(imageBuffer.width, imageBuffer.height,
                                                 imageBuffer.channels,
                                                 noiseAmplitude(settings.intensity), stream)),
             !.exif = NoContainer],
        run |-> [invoked |-> {"gaussian"},
                 amplitude |-> noiseAmplitude(settings.intensity), applied |-> TRUE]]

\* generateAdversarialNoise(imageBuffer, settings).  env is what the
\* environment does to this call: "ok", "nodims" (metadata() reports no
\* width or height) or "throws" (metadata(), a generator or the composite
\* rejects); stream holds the random draws.  The result is the buffer
\* returned and a record of what ran.  The output of the inner toBuffer() is
\* in the format of its input and carries no metadata container: the inner
\* pipeline never calls withMetadata().
generateAdversarialNoise(imageBuffer, settings, env, stream) ==
  IF ~settings.enabled THEN [buffer |-> imageBuffer, run |-> NoNoiseRun]
  ELSE IF env = "throws" \/ env = "nodims" THEN [buffer |-> imageBuffer, run |-> NoNoiseRun]
  ELSE
    LET width == imageBuffer.width
        height == imageBuffer.height
        channels == IF imageBuffer.channels = 0 THEN 3 ELSE imageBuffer.channels
        amplitude == noiseAmplitude(settings.intensity)
        noiseBuffer ==
          CASE settings.method = "uniform" ->
                 generateUniformNoise(width, height, channels, amplitude, stream)
            [] settings.method = "perlin" ->
                 generatePerlinNoise(width, height, channels, amplitude)
            [] OTHER ->
                 generateGaussianNoise(width, height, channels, amplitude, stream)
        generator ==
          IF settings.method \in {"uniform", "perlin"} THEN settings.method ELSE "gaussian"
    IN [buffer |->
          [imageBuffer EXCEPT
             !.samples = BlendAdd(imageBuffer.samples, noiseBuffer),
             !.exif = NoContainer,
             !.jpegPasses = IF imageBuffer.format = "jpeg" THEN @ + 1 ELSE @],
        run |-> [invoked |-> {generator}, amplitude |-> amplitude, applied |-> TRUE]]

\* ------------------------------------------------- processImage, by stage

\* sharp(imagePath) and image.metadata(): rejects for a file that is no image.
\* The width and height default to 800 x 600 when the header has none.
DecodeStage(source) ==
  [ok |-> source.decodable,
   image |-> Sharp(source),
   initialMetadata |->
     [format |-> source.format,
      width |-> IF source.width = 0 THEN 800 ELSE source.width,
      height |-> IF source.height = 0 THEN 600 ELSE source.height,
      exif |-> source.exif.present]]

\* if (!exifOnlyMode && text) image = image.composite([svg]).
WatermarkStage(image, meta, settings, addExifProtection, exifOnlyMode) ==
  IF ~exifOnlyMode /\ settings.text # <<>>
  THEN [image EXCEPT !.composite =
          Append(@, svgContent(settings, meta.width, meta.height, addExifProtection))]
  ELSE image

\* if (addExifProtection) try { image = image.withMetadata().withExifMerge(..) }
\* catch { continue }.  sharp's option setters change the pipeline in place,
\* so when withExifMerge throws, withMetadata() has already taken effect.
MetadataStage(image, addExifProtection, exifThrows) ==
  IF ~addExifProtection THEN image
  ELSE IF exifThrows THEN [image EXCEPT !.keepMetadata = TRUE]
  ELSE [image EXCEPT !.keepMetadata = TRUE, !.exifMerge = ProtectionTags]

isPNG(meta) == meta.format = "png"

extension(meta) == IF isPNG(meta) THEN "png" ELSE "jpeg"

\* isPNG ? image.png().toBuffer() : image.jpeg().toBuffer()
EncodeStage(image, meta, encoderFails) ==
  toBuffer(image, IF isPNG(meta) THEN "png" ELSE "jpeg", encoderFails)

\* The guard written as if (adversarialSettings): the enabled flag is not read.
NoiseRequestedIfGiven(adversarialSettings) == adversarialSettings.given

\* adversarialSettings?.enabled
NoiseRequested(adversarialSettings) ==
  adversarialSettings.given /\ adversarialSettings.enabled

\* The if / else replaced by an unconditional call that forces the flag on:
\* generateAdversarialNoise(currentBuffer, {...adversarialSettings, enabled: true}).
FinalImageBufferUnguarded(buffer, adversarialSettings, env, stream) ==
  generateAdversarialNoise(buffer,
    [adversarialSettings EXCEPT !.given = TRUE, !.enabled = TRUE,
                                !.intensity = IF @ = 0 THEN 5 ELSE @],
    env, stream)

\* The if / else that sets finalImageBuffer from the encoded image.
FinalImageBuffer(buffer, adversarialSettings, env, stream) ==
  IF NoiseRequested(adversarialSettings)
  THEN generateAdversarialNoise(buffer, adversarialSettings, env, stream)
  ELSE [buffer |-> buffer, run |-> NoNoiseRun]

NoOutput == [written |-> FALSE, extension |-> "none", bytes |-> NoBuffer]

\* fs.writeFileSync(outputPath, finalImageBuffer) under the name
\* watermarked-<uuid>.<extension>.
OutputArtifact(meta, finalImageBuffer) ==
  [written |-> TRUE, extension |-> extension(meta), bytes |-> finalImageBuffer]

\* ------------------------------------------------- the /api/process-image route

Chars19 ==
  <<"N", "o", "t", " ", "f", "o", "r", " ", "A", "I", " ",
    "t", "r", "a", "i", "n", "i", "n", "g">>

DigitValue(c) ==
  CASE c = "0" -> 0 [] c = "1" -> 1 [] c = "2" -> 2 [] c = "3" -> 3 [] c = "4" -> 4
    [] c = "5" -> 5 [] c = "6" -> 6 [] c = "7" -> 7 [] c = "8" -> 8 [] c = "9" -> 9

RECURSIVE parseInt(_)
\* parseInt(s, 10) of a string of decimal digits.
parseInt(s) ==
  IF s = <<>> THEN 0
  ELSE 10 * parseInt(SubSeq(s, 1, Len(s) - 1)) + DigitValue(s[Len(s)])

\* a || b for a form field: b when the field is undefined or the empty string
\* (an undefined field is modelled as the empty one; the code treats them alike).
OrDefault(value, empty, default) == IF value = empty THEN default ELSE value

\* res.setHeader('Content-Type', 'image/jpeg'), in both processing routes.
ResponseContentType(processedImage) == "image/jpeg"

\* The watermarkSettings the route builds from req.body.
RouteWatermarkSettings(body) ==
  [text |-> OrDefault(body.text, <<>>, Chars19),
   position |-> OrDefault(body.position, "", "bottom-right"),
   opacity |-> parseInt(OrDefault(body.opacity, <<>>, <<"7", "0">>)),
   fontSize |-> parseInt(OrDefault(body.fontSize, <<>>, <<"2", "4">>))]

\* req.body.exifProtection !== 'false'
RouteExifProtection(body) == body.exifProtection # "false"

Bodies ==
  [text : {<<>>, <<"X">>}, position : {"", "top-left"},
   opacity : {<<>>, <<"5", "0">>}, fontSize : {<<>>, <<"1", "2">>},
   exifProtection : {"", "true", "false"},
   adversarialEnabled : {"", "true"}, adversarialIntensity : {<<"5">>},
   adversarialMethod : {"gaussian"}]

NoBody ==
  [text |-> <<>>, position |-> "", opacity |-> <<>>, fontSize |-> <<>>,
   exifProtection |-> "",
   adversarialEnabled |-> "", adversarialIntensity |-> <<>>, adversarialMethod |-> ""]

\* ------------------------------------------------------------- state

VARIABLES
  pc,                \* where the current call of processImage stands
  call,              \* how it was entered and its arguments
  initialMetadata,   \* processImage's initialMetadata
  image,             \* processImage's image (the sharp pipeline)
  encoded,           \* the buffer of image.png()/jpeg().toBuffer()
  finalImageBuffer,  \* processImage's finalImageBuffer
  noiseRun,          \* what generateAdversarialNoise ran in this call
  fault,             \* the stage errors the environment raised in this call
  output,            \* the artifact written, if any
  stages             \* the stages completed so far, in order

pvars ==
  <<pc, call, initialMetadata, image, encoded, finalImageBuffer, noiseRun,
    fault, output, stages>>

VARIABLES
  clock,           \* Date.now(), in milliseconds
  files,           \* the files on disk: path -> [mtime, role, content]
  requests,        \* the requests received so far, in order of arrival
  pendingUnlinks,  \* fs.unlink calls of the routes whose callback is due
  sweeps,          \* the calls of cleanupTempFiles whose callbacks are due
  fired,           \* how many times the hourly timer has fired
  nextFire,        \* when the timer fires next
  nextUuid,        \* the uuids handed out so far
  sweepLog,        \* what the sweeps under way, or the last one, decided per entry
  faults           \* how many filesystem faults the environment has raised

lvars ==
  <<clock, files, requests, pendingUnlinks, sweeps, fired, nextFire, nextUuid,
    sweepLog, faults>>

VARIABLES
  args,    \* the function applied on its own and its arguments, if any
  result   \* what it returned

fvars == <<args, result>>

VARIABLES
  clientPc,    \* where the client's current call stands
  clientCall,  \* the function the client called and its arguments
  liveUrls,    \* the object URLs created and not revoked
  revoked,     \* the object URLs revoked, in order
  blob,        \* the blob of the current call
  response,    \* how the fetch of /api/add-exif ended in the current call
  calls        \* how many calls the client has made

cvars == <<clientPc, clientCall, liveUrls, revoked, blob, response, calls>>

vars == <<pvars, lvars, fvars, cvars>>

NoMetadata == [format |-> "none", width |-> 0, height |-> 0, exif |-> FALSE]

NoCall ==
  [via |-> "none", body |-> NoBody, imagePath |-> CorruptFile,
   watermarkSettings |->
     [text |-> <<>>, position |-> "", opacity |-> 0, fontSize |-> 0],
   addExifProtection |-> FALSE, exifOnlyMode |-> FALSE,
   adversarialSettings |-> NoSettings]

InitPipeline ==
  /\ pc = "idle"
  /\ call = NoCall
  /\ initialMetadata = NoMetadata
  /\ image = NoImage
  /\ encoded = NoBuffer
  /\ finalImageBuffer = NoBuffer
  /\ noiseRun = NoNoiseRun
  /\ fault = {}
  /\ output = NoOutput
  /\ stages = <<>>

\* A caller invokes processImage(imagePath, watermarkSettings,
\* addExifProtection, exifOnlyMode, adversarialSettings).
DirectCall ==
  /\ pc = "idle"
  /\ \E src \in SourceFiles, ws \in WatermarkSettingsSet, ex \in BOOLEAN,
        only \in BOOLEAN, adv \in AdversarialSettingsSet :
       call' = [via |-> "direct", body |-> NoBody, imagePath |-> src,
                watermarkSettings |-> ws, addExifProtection |-> ex,
                exifOnlyMode |-> only, adversarialSettings |-> adv]
  /\ pc' = "called"
  /\ UNCHANGED <<initialMetadata, image, encoded, finalImageBuffer, noiseRun,
                 fault, output, stages>>
  /\ UNCHANGED <<lvars, fvars, cvars>>

\* POST /api/process-image with an uploaded file: the route builds the
\* settings from the form fields and calls processImage with three arguments.
RouteProcessImage ==
  /\ pc = "idle"
  /\ \E src \in SourceFiles, body \in Bodies :
       call' = [via |-> "process-image", body |-> body, imagePath |-> src,
                watermarkSettings |-> RouteWatermarkSettings(body),
                addExifProtection |-> RouteExifProtection(body),
                exifOnlyMode |-> FALSE, adversarialSettings |-> NoSettings]
  /\ pc' = "called"
  /\ UNCHANGED <<initialMetadata, image, encoded, finalImageBuffer, noiseRun,
                 fault, output, stages>>
  /\ UNCHANGED <<lvars, fvars, cvars>>

\* POST /api/process-image without a file: 400, processImage is not called.
RouteNoFile ==
  /\ pc = "idle"
  /\ \E body \in Bodies :
       call' = [NoCall EXCEPT !.via = "process-image", !.body = body]
  /\ pc' = "rejected"
  /\ UNCHANGED <<initialMetadata, image, encoded, finalImageBuffer, noiseRun,
                 fault, output, stages>>
  /\ UNCHANGED <<lvars, fvars, cvars>>

\* let image = sharp(imagePath); await image.metadata().  A rejection is
\* caught by the outer catch, which throws 'Failed to process image'.
Decode ==
  /\ pc = "called"
  /\ LET d == DecodeStage(call.imagePath) IN
       IF d.ok
       THEN /\ image' = d.image
            /\ initialMetadata' = d.initialMetadata
            /\ stages' = Append(stages, "Decoded")
            /\ pc' = "Decoded"
            /\ fault' = fault
       ELSE /\ pc' = "failed"
            /\ fault' = fault \cup {"decode"}
            /\ UNCHANGED <<image, initialMetadata, stages>>
  /\ UNCHANGED <<call, encoded, finalImageBuffer, noiseRun, output>>
  /\ UNCHANGED <<lvars, fvars, cvars>>

Watermark ==
  /\ pc = "Decoded"
  /\ image' = WatermarkStage(image, initialMetadata, call.watermarkSettings,
                             call.addExifProtection, call.exifOnlyMode)
  /\ stages' = Append(stages, "Watermarked")
  /\ pc' = "Watermarked"
  /\ UNCHANGED <<call, initialMetadata, encoded, finalImageBuffer, noiseRun,
                 fault, output>>
  /\ UNCHANGED <<lvars, fvars, cvars>>

\* The metadata block; withExifMerge may throw, which the inner catch absorbs.
Metadata ==
  /\ pc = "Watermarked"
  /\ \E exifThrows \in BOOLEAN :
       /\ exifThrows => call.addExifProtection
       /\ image' = MetadataStage(image, call.addExifProtection, exifThrows)
       /\ fault' = IF exifThrows THEN fault \cup {"exif-sync"} ELSE fault
  /\ stages' = Append(stages, "MetadataTagged")
  /\ pc' = "MetadataTagged"
  /\ UNCHANGED <<call, initialMetadata, encoded, finalImageBuffer, noiseRun, output>>
  /\ UNCHANGED <<lvars, fvars, cvars>>

\* await image.png().toBuffer() / image.jpeg().toBuffer(), in either branch
\* of the noise if.  The pipeline runs here: an overlay that cannot be
\* rendered, or an EXIF block the encoder cannot write, rejects here, outside
\* the inner try, and the outer catch throws.
Encode ==
  /\ pc = "MetadataTagged"
  /\ \E exifFails \in BOOLEAN :
       /\ exifFails => image.exifMerge # {}
       /\ LET buf == EncodeStage(image, initialMetadata, exifFails) IN
            IF buf.ok
            THEN /\ encoded' = buf
                 /\ stages' = Append(stages, "Encoded")
                 /\ pc' = "Encoded"
                 /\ fault' = fault
            ELSE /\ pc' = "failed"
                 /\ fault' = fault \cup (IF exifFails THEN {"exif-encode"} ELSE {})
                                   \cup (IF \E i \in 1..Len(image.composite) :
                                              ~Renderable(image.composite[i])
                                         THEN {"watermark-render"} ELSE {})
                 /\ UNCHANGED <<encoded, stages>>
  /\ UNCHANGED <<call, initialMetadata, image, finalImageBuffer, noiseRun, output>>
  /\ UNCHANGED <<lvars, fvars, cvars>>

\* The noise branch: finalImageBuffer = await generateAdversarialNoise(
\* currentBuffer, adversarialSettings); the else branch keeps the buffer.
Noise ==
  /\ pc = "Encoded"
  /\ \E env \in {"ok", "nodims", "throws"} :
     \E stream \in Streams(call.adversarialSettings.method, Len(encoded.samples)) :
       /\ (env # "ok") => NoiseRequested(call.adversarialSettings)
       /\ LET r == FinalImageBuffer(encoded, call.adversarialSettings, env, stream) IN
            /\ finalImageBuffer' = r.buffer
            /\ noiseRun' = r.run
            /\ fault' = IF env = "ok" THEN fault ELSE fault \cup {"noise"}
            /\ stages' =
                 IF ~NoiseRequested(call.adversarialSettings) THEN stages
                 ELSE IF r.run.applied THEN stages \o <<"Noised", "Encoded">>
                 ELSE Append(stages, "Noised")
  /\ pc' = "Final"
  /\ UNCHANGED <<call, initialMetadata, image, encoded, output>>
  /\ UNCHANGED <<lvars, fvars, cvars>>

\* fs.writeFileSync(outputPath, finalImageBuffer); return outputPath.
WriteOutput ==
  /\ pc = "Final"
  /\ output' = OutputArtifact(initialMetadata, finalImageBuffer)
  /\ pc' = "done"
  /\ UNCHANGED <<call, initialMetadata, image, encoded, finalImageBuffer,
                 noiseRun, fault, stages>>
  /\ UNCHANGED <<lvars, fvars, cvars>>

NextPipeline ==
  \/ DirectCall
  \/ RouteProcessImage
  \/ RouteNoFile
  \/ Decode
  \/ Watermark
  \/ Metadata
  \/ Encode
  \/ Noise
  \/ WriteOutput

\* ------------------------------------------------ the artifact lifecycle

\* const expirationTime = 12 * 60 * 60 * 1000 (cleanupTempFiles)
expirationTime == 12 * 60 * 60 * 1000

\* const cleanupInterval = 60 * 60 * 1000
cleanupInterval == 60 * 60 * 1000

\* The clock advances by half a sweep interval at a time.
TickStep == cleanupInterval \div 2

\* Date.now() when the server starts.
StartClock == expirationTime + cleanupInterval

\* path.join(os.tmpdir(), 'ai-defense-watermarker'), and the directory of
\* the base64 route, process.env.TEMP || '/tmp'.
tempDir == "tmpdir/ai-defense-watermarker"

base64Dir == "/tmp"

Path(dir, kind, n) == [dir |-> dir, name |-> <<kind, n>>]

NoPath == Path("none", "none", 0)

\* Files a previous run of the server left in tempDir, by their age at startup.
Leftovers ==
  { [path |-> Path(tempDir, "old", 1), mtime |-> StartClock - expirationTime - TickStep],
    [path |-> Path(tempDir, "old", 2), mtime |-> StartClock - expirationTime],
    [path |-> Path(tempDir, "old", 3), mtime |-> StartClock - expirationTime + TickStep] }

LifecycleSources == {CorruptFile, Raster("jpeg", NoContainer)}

\* An unlink that reports success and leaves the entry in place.
Unremoved(f, p) == f

Without(f, p) == [q \in (DOMAIN f) \ {p} |-> f[q]]

WithFile(f, p, mtime, role, content) ==
  (p :> [mtime |-> mtime, role |-> role, content |-> content]) @@ Without(f, p)

\* processImage as the routes call it (three arguments, so no EXIF-only mode
\* and no noise), from its first statement to its return or throw, with no
\* fault of the environment.
processImage(imagePath, watermarkSettings, addExifProtection) ==
  LET d == DecodeStage(imagePath)
      marked == WatermarkStage(d.image, d.initialMetadata, watermarkSettings,
                               addExifProtection, FALSE)
      tagged == MetadataStage(marked, addExifProtection, FALSE)
      buffer == EncodeStage(tagged, d.initialMetadata, FALSE)
  IN IF d.ok /\ buffer.ok
     THEN OutputArtifact(d.initialMetadata,
                         FinalImageBuffer(buffer, NoSettings, "ok", <<>>).buffer)
     ELSE NoOutput

Base64WatermarkSettings ==
  [text |-> <<"X">>, position |-> "bottom-right", opacity |-> 70, fontSize |-> 24]

InitLifecycle ==
  /\ clock = StartClock
  /\ \E old \in {{}, Leftovers} :
       files = [p \in { o.path : o \in old } |->
                  [mtime |-> (CHOOSE o \in old : o.path = p).mtime,
                   role |-> "leftover", content |-> CorruptFile]]
  /\ requests = <<>>
  /\ pendingUnlinks = {}
  /\ sweeps = {[id |-> 0, phase |-> "readdir", now |-> 0, toStat |-> {}, toUnlink |-> {}]}
  /\ fired = 0
  /\ nextFire = StartClock + cleanupInterval
  /\ nextUuid = 0
  /\ sweepLog = {}
  /\ faults = 0

NoArgs == [fn |-> "none"]

NotApplied == [applied |-> FALSE, value |-> 0]

Returned(value) == [applied |-> TRUE, value |-> value]

\* -------------------------------- the client: lib/image-processor.ts

\* The File objects the user may pick.
ClientFiles ==
  { [name |-> <<"a", ".", "p", "n", "g">>, type |-> "image/png", decodable |-> d] :
      d \in BOOLEAN }
    \cup
  { [name |-> <<"b", ".", "j", "p", "g">>, type |-> "image/jpeg", decodable |-> d] :
      d \in BOOLEAN }

\* The URLs addWatermarkToCanvas is given when it is called for a preview.
PreviewUrls ==
  { <<"a", ".", "p", "n", "g">>, <<"a", ".", "P", "N", "G">>,
    <<"b", ".", "j", "p", "g">>, <<"c", ".", "w", "e", "b", "p">>,
    <<"d", ".", "g", "i", "f">> }

\* URL.createObjectURL(image): "blob:" and a fresh identifier.
createObjectURL(n) == <<"b", "l", "o", "b", ":", ToString(n)>>

LowerCaseOf(c) ==
  CASE c = "P" -> "p" [] c = "N" -> "n" [] c = "G" -> "g" [] OTHER -> c

toLowerCase(str) == [i \in 1..Len(str) |-> LowerCaseOf(str[i])]

endsWith(str, suffix) ==
  /\ Len(str) >= Len(suffix)
  /\ SubSeq(str, Len(str) - Len(suffix) + 1, Len(str)) = suffix

\* let outputFormat = 'image/jpeg'; if (imageUrl.toLowerCase().endsWith('.png'))
\* ... : the format addWatermarkToCanvas asks canvas.toBlob for.  The type of
\* the file is not among its parameters.
outputFormat(imageUrl, type) ==
  IF endsWith(toLowerCase(imageUrl), <<".", "p", "n", "g">>) THEN "image/png"
  ELSE IF endsWith(toLowerCase(imageUrl), <<".", "g", "i", "f">>) THEN "image/gif"
  ELSE IF endsWith(toLowerCase(imageUrl), <<".", "w", "e", "b", "p">>) THEN "image/webp"
  ELSE "image/jpeg"

\* canvas.toBlob(callback, type, 0.95): a type the canvas cannot encode (gif)
\* gives a PNG.
toBlob(type) ==
  IF type \in {"image/png", "image/jpeg", "image/webp"} THEN type ELSE "image/png"

NoBlob == [present |-> FALSE, type |-> "none", size |-> 0, origin |-> "none", note |-> FALSE]

NoClientCall ==
  [fn |-> "none", file |-> [name |-> <<>>, type |-> "none", decodable |-> FALSE],
   imageUrl |-> <<>>, exifProtection |-> FALSE]

\* How fetch('/api/add-exif') may end: it throws, the status is not OK, or the
\* status is OK and the body is empty or an image.
FetchOutcomes == {"throws", "not-ok", "ok-empty", "ok-blob"}

ServerBlobs(outcome) ==
  IF outcome = "ok-blob"
  THEN { [present |-> TRUE, type |-> t, size |-> 1, origin |-> "server", note |-> TRUE] :
           t \in {"image/png", "image/jpeg"} }
  ELSE { [present |-> TRUE, type |-> "", size |-> 0, origin |-> "server", note |-> FALSE] }

\* The server's blob taken whenever the status is OK, its size not looked at.
BlobAfterFetchIfOk(own, outcome, serverBlob) ==
  IF outcome \in {"ok-empty", "ok-blob"} THEN serverBlob ELSE own

\* if (response.ok) { serverBlob = await response.blob();
\*   if (serverBlob && serverBlob.size > 0) blob = serverBlob } under try / catch.
BlobAfterFetch(own, outcome, serverBlob) ==
  IF outcome \in {"ok-empty", "ok-blob"} /\ serverBlob.present /\ serverBlob.size > 0
  THEN serverBlob
  ELSE own

InitClient ==
  /\ clientPc = "idle"
  /\ clientCall = NoClientCall
  /\ liveUrls = {}
  /\ revoked = <<>>
  /\ blob = NoBlob
  /\ response = "none"
  /\ calls = 0

ClientIdle == clientPc \in {"idle", "resolved", "rejected"} /\ calls < MaxClientCalls

\* createDownloadableImage(image, watermarkSettings, exifProtection) up to its
\* try: const imageUrl = URL.createObjectURL(image).
CreateDownloadableImage ==
  /\ ClientIdle
  /\ \E file \in ClientFiles, exifProtection \in BOOLEAN :
       clientCall' = [fn |-> "createDownloadableImage", file |-> file,
                      imageUrl |-> createObjectURL(calls), exifProtection |-> exifProtection]
  /\ liveUrls' = liveUrls \cup {createObjectURL(calls)}
  /\ calls' = calls + 1
  /\ clientPc' = "created"
  /\ blob' = NoBlob
  /\ response' = "none"
  /\ UNCHANGED revoked
  /\ UNCHANGED <<pvars, lvars, fvars>>

\* addWatermarkToCanvas(imageUrl, watermarkSettings, exifProtection) called
\* on its own, for a preview, with the URL of an image.
PreviewWatermark ==
  /\ ClientIdle
  /\ \E imageUrl \in PreviewUrls, exifProtection \in BOOLEAN, decodable \in BOOLEAN :
       clientCall' = [fn |-> "addWatermarkToCanvas",
                      file |-> [name |-> imageUrl, type |-> "none", decodable |-> decodable],
                      imageUrl |-> imageUrl, exifProtection |-> exifProtection]
  /\ calls' = calls + 1
  /\ clientPc' = "created"
  /\ blob' = NoBlob
  /\ response' = "none"
  /\ UNCHANGED <<liveUrls, revoked>>
  /\ UNCHANGED <<pvars, lvars, fvars>>

\* The body of addWatermarkToCanvas: the image loads or img.onerror rejects;
\* the canvas gives a context or not; the watermark is drawn; canvas.toBlob
\* gives a blob of the format asked for, or null.
AddWatermarkToCanvas ==
  /\ clientPc = "created"
  /\ \E canvas \in {"ok", "no-context", "no-blob"} :
       IF clientCall.file.decodable /\ canvas = "ok"
       THEN /\ blob' = [present |-> TRUE,
                        type |-> toBlob(outputFormat(clientCall.imageUrl,
                                                     clientCall.file.type)),
                        size |-> 1, origin |-> "client",
                        note |-> clientCall.exifProtection]
            /\ clientPc' = "watermarked"
       ELSE /\ blob' = NoBlob
            /\ clientPc' = "rejecting"
  /\ UNCHANGED <<clientCall, liveUrls, revoked, response, calls>>
  /\ UNCHANGED <<pvars, lvars, fvars>>

\* if (exifProtection && blob) { try { fetch('/api/add-exif') ... } catch { } }
AddExif ==
  /\ clientPc = "watermarked"
  /\ clientCall.fn = "createDownloadableImage"
  /\ clientCall.exifProtection
  /\ \E outcome \in FetchOutcomes : \E serverBlob \in ServerBlobs(outcome) :
       /\ response' = outcome
       /\ blob' = BlobAfterFetch(blob, outcome, serverBlob)
  /\ clientPc' = "returning"
  /\ UNCHANGED <<clientCall, liveUrls, revoked, calls>>
  /\ UNCHANGED <<pvars, lvars, fvars>>

\* The if is not taken: exifProtection is false.
SkipExif ==
  /\ clientPc = "watermarked"
  /\ clientCall.fn = "createDownloadableImage"
  /\ ~clientCall.exifProtection
  /\ clientPc' = "returning"
  /\ UNCHANGED <<clientCall, liveUrls, revoked, blob, response, calls>>
  /\ UNCHANGED <<pvars, lvars, fvars>>

\* return blob, or the rejection of addWatermarkToCanvas passing through:
\* finally { URL.revokeObjectURL(imageUrl) }, and the promise settles.
Finally ==
  /\ clientPc \in {"returning", "rejecting"}
  /\ clientCall.fn = "createDownloadableImage"
  /\ liveUrls' = liveUrls \ {clientCall.imageUrl}
  /\ revoked' = Append(revoked, clientCall.imageUrl)
  /\ clientPc' = IF clientPc = "returning" THEN "resolved" ELSE "rejected"
  /\ UNCHANGED <<clientCall, blob, response, calls>>
  /\ UNCHANGED <<pvars, lvars, fvars>>

\* The promise of a preview call settles: resolve(blob) or reject(...).
PreviewSettles ==
  /\ clientPc \in {"watermarked", "rejecting"}
  /\ clientCall.fn = "addWatermarkToCanvas"
  /\ clientPc' = IF clientPc = "watermarked" THEN "resolved" ELSE "rejected"
  /\ UNCHANGED <<clientCall, liveUrls, revoked, blob, response, calls>>
  /\ UNCHANGED <<pvars, lvars, fvars>>

NextClient ==
  \/ CreateDownloadableImage
  \/ PreviewWatermark
  \/ AddWatermarkToCanvas
  \/ AddExif
  \/ SkipExif
  \/ Finally
  \/ PreviewSettles

Init ==
  /\ InitPipeline /\ InitLifecycle /\ args = NoArgs /\ result = NotApplied
  /\ InitClient

Spec == Init /\ [][NextPipeline]_vars

Arriving ==
  /\ Len(requests) < MaxRequests
  /\ clock <= StartClock + MaxArrivalTicks * TickStep

\* POST /api/process-image: multer stores the upload in tempDir under
\* <uuid>-<originalname> before the handler runs.
UploadArrives ==
  /\ Arriving
  /\ \E src \in LifecycleSources :
       LET input == Path(tempDir, "upload", nextUuid) IN
         /\ files' = WithFile(files, input, clock, "upload", src)
         /\ requests' = Append(requests,
              [route |-> "process-image", phase |-> "received", arrived |-> clock,
               input |-> input, output |-> NoPath])
  /\ nextUuid' = nextUuid + 1
  /\ UNCHANGED <<clock, pendingUnlinks, sweeps, fired, nextFire, sweepLog, faults>>
  /\ UNCHANGED <<pvars, fvars, cvars>>

\* POST /api/process-image-base64 with well-formed imageData: the handler
\* writes the decoded bytes to <process.env.TEMP || '/tmp'>/temp-<Date.now()>.jpg.
Base64Received ==
  /\ \E src \in LifecycleSources :
       LET input == Path(base64Dir, "temp", clock) IN
         /\ files' = WithFile(files, input, clock, "base64-input", src)
         /\ requests' = Append(requests,
              [route |-> "process-image-base64", phase |-> "received", arrived |-> clock,
               input |-> input, output |-> NoPath])
  /\ UNCHANGED <<clock, pendingUnlinks, sweeps, fired, nextFire, nextUuid, sweepLog, faults>>
  /\ UNCHANGED <<pvars, fvars, cvars>>

Base64Arrives == Arriving /\ Base64Received

\* A request to /api/process-image-base64 arrives while others are in flight,
\* within the same millisecond.
Base64ArrivesAlongside == Len(requests) < MaxConcurrent /\ Base64Received

\* POST /api/process-image-base64 whose imageData is missing or malformed:
\* 400, nothing is written.
Base64Rejected ==
  /\ Arriving
  /\ requests' = Append(requests,
       [route |-> "process-image-base64", phase |-> "rejected", arrived |-> clock,
        input |-> NoPath, output |-> NoPath])
  /\ UNCHANGED <<clock, files, pendingUnlinks, sweeps, fired, nextFire, nextUuid,
                 sweepLog, faults>>
  /\ UNCHANGED <<pvars, fvars, cvars>>

\* await processImage(...) in either handler.  A throw is answered with 500
\* and the handler ends there; a return leaves the output in tempDir.
Process(r) ==
  /\ requests[r].phase = "received"
  /\ LET input == requests[r].input
         src == IF input \in DOMAIN files THEN files[input].content ELSE CorruptFile
         out == IF requests[r].route = "process-image"
                THEN processImage(src, RouteWatermarkSettings(NoBody),
                                  RouteExifProtection(NoBody))
                ELSE processImage(src, Base64WatermarkSettings, TRUE)
         outputPath == Path(tempDir, "watermarked", nextUuid)
     IN IF out.written
        THEN /\ files' = WithFile(files, outputPath, clock, "output", out.bytes)
             /\ requests' = [requests EXCEPT ![r].phase = "processed",
                                             ![r].output = outputPath]
             /\ nextUuid' = nextUuid + 1
        ELSE /\ requests' = [requests EXCEPT ![r].phase = "failed"]
             /\ UNCHANGED <<files, nextUuid>>
  /\ UNCHANGED <<clock, pendingUnlinks, sweeps, fired, nextFire, sweepLog, faults>>
  /\ UNCHANGED <<pvars, fvars, cvars>>

\* fs.createReadStream(processedImagePath).pipe(res): the stream opens the
\* file; if it is gone the stream emits 'error', which no handler listens to.
OpenStream(r) ==
  /\ requests[r].phase = "processed"
  /\ requests' = [requests EXCEPT ![r].phase =
       IF requests[r].output \in DOMAIN files THEN "streaming" ELSE "stream-error"]
  /\ UNCHANGED <<clock, files, pendingUnlinks, sweeps, fired, nextFire, nextUuid,
                 sweepLog, faults>>
  /\ UNCHANGED <<pvars, fvars, cvars>>

\* The 'end' handler with the unlink of the output only.
UnlinksAtEndOutputOnly(request) == {request.output}

\* fs.unlink(processedImagePath, ...) and fs.unlink(req.file.path, ...) (in the
\* base64 route, of tempFilePath).
UnlinksAtEnd(request) == {request.output, request.input}

\* fileStream.on('end'): fs.unlink of the output and of the input are issued.
StreamEnd(r) ==
  /\ requests[r].phase = "streaming"
  /\ requests' = [requests EXCEPT ![r].phase = "ended"]
  /\ pendingUnlinks' = pendingUnlinks \cup UnlinksAtEnd(requests[r])
  /\ UNCHANGED <<clock, files, sweeps, fired, nextFire, nextUuid, sweepLog, faults>>
  /\ UNCHANGED <<pvars, fvars, cvars>>

\* The callback of one of the routes' fs.unlink calls: the file is removed,
\* or the error (the file is already gone) is logged.
RouteUnlink(p) ==
  /\ p \in pendingUnlinks
  /\ pendingUnlinks' = pendingUnlinks \ {p}
  /\ files' = Without(files, p)
  /\ UNCHANGED <<clock, requests, sweeps, fired, nextFire, nextUuid, sweepLog, faults>>
  /\ UNCHANGED <<pvars, fvars, cvars>>

\* ------------------------------------------------------------ the sweep

Dropped(set, p) == set \ {p}

\* The callback of fs.readdir(tempDir).  On an error (the environment's
\* choice) it is logged and the sweep returns; otherwise const now =
\* Date.now(), and a stat is issued for every entry listed.
SweepReaddir(s) ==
  /\ s \in sweeps
  /\ s.phase = "readdir"
  /\ \E fails \in BOOLEAN :
       LET others == { e \in sweepLog : e.sweep \in { t.id : t \in sweeps } \ {s.id} } IN
       /\ fails => faults < MaxFaults
       /\ faults' = IF fails THEN faults + 1 ELSE faults
       /\ sweeps' = Dropped(sweeps, s) \cup
            {[s EXCEPT !.phase = "running", !.now = clock,
                       !.toStat = IF fails THEN {}
                                  ELSE { p \in DOMAIN files : p.dir = tempDir }]}
       /\ sweepLog' =
            IF fails
            THEN others \cup {[sweep |-> s.id, path |-> NoPath, outcome |-> "readdir-error",
                               age |-> 0, present |-> FALSE]}
            ELSE others
  /\ UNCHANGED <<clock, files, requests, pendingUnlinks, fired, nextFire, nextUuid>>
  /\ UNCHANGED <<pvars, fvars, cvars>>

\* An age that is the time of the sweep itself.
fileAgeFromEpoch(now, mtime) == now

\* const fileAge = now - stats.mtime.getTime()
fileAge(now, mtime) == now - mtime

\* The comparison written as fileAge >= expirationTime.
ExpiredInclusive(age) == age >= expirationTime

\* fileAge > expirationTime
Expired(age) == age > expirationTime

\* A callback that, besides its own entry, gives up every stat still due.
AfterStatAbandoning(s, p, expired) ==
  [s EXCEPT !.toStat = {},
            !.toUnlink = IF expired THEN @ \cup {p} ELSE @]

\* The sweep (of which s is the state before this callback) without entry p
\* among its stats due, and with it among its unlinks due when expired.
AfterStat(s, p, expired) ==
  [s EXCEPT !.toStat = @ \ {p},
            !.toUnlink = IF expired THEN @ \cup {p} ELSE @]

\* The callback of fs.stat for one entry: on an error (the entry is gone, or
\* the environment refuses) the entry is logged and skipped; otherwise
\* fileAge = now - mtime, and an unlink is issued if the entry has expired.
SweepStat(s, p) ==
  /\ s \in sweeps
  /\ p \in s.toStat
  /\ \E fails \in BOOLEAN :
       /\ fails => (p \in DOMAIN files /\ faults < MaxFaults)
       /\ faults' = IF fails THEN faults + 1 ELSE faults
       /\ IF p \notin DOMAIN files \/ fails
          THEN /\ sweeps' = Dropped(sweeps, s) \cup {AfterStat(s, p, FALSE)}
               /\ sweepLog' = sweepLog \cup
                    {[sweep |-> s.id, path |-> p, outcome |-> "stat-error",
                      age |-> IF p \in DOMAIN files THEN s.now - files[p].mtime ELSE 0,
                      present |-> p \in DOMAIN files]}
          ELSE LET age == fileAge(s.now, files[p].mtime) IN
               /\ sweeps' = Dropped(sweeps, s) \cup {AfterStat(s, p, Expired(age))}
               /\ sweepLog' =
                    IF Expired(age) THEN sweepLog
                    ELSE sweepLog \cup
                      {[sweep |-> s.id, path |-> p, outcome |-> "kept",
                        age |-> age, present |-> TRUE]}
  /\ UNCHANGED <<clock, files, requests, pendingUnlinks, fired, nextFire, nextUuid>>
  /\ UNCHANGED <<pvars, fvars, cvars>>

\* The callback of fs.unlink for one expired entry: the entry is removed, or
\* the error is logged.
SweepUnlink(s, p) ==
  /\ s \in sweeps
  /\ p \in s.toUnlink
  /\ sweeps' = Dropped(sweeps, s) \cup {[s EXCEPT !.toUnlink = @ \ {p}]}
  /\ \E fails \in BOOLEAN :
       /\ fails => (p \in DOMAIN files /\ faults < MaxFaults)
       /\ faults' = IF fails THEN faults + 1 ELSE faults
       /\ IF p \notin DOMAIN files \/ fails
          THEN /\ files' = files
               /\ sweepLog' = sweepLog \cup
                    {[sweep |-> s.id, path |-> p, outcome |-> "unlink-error",
                      age |-> IF p \in DOMAIN files THEN s.now - files[p].mtime ELSE 0,
                      present |-> p \in DOMAIN files]}
          ELSE /\ files' = Without(files, p)
               /\ sweepLog' = sweepLog \cup
                    {[sweep |-> s.id, path |-> p, outcome |-> "deleted",
                      age |-> s.now - files[p].mtime, present |-> TRUE]}
  /\ UNCHANGED <<clock, requests, pendingUnlinks, fired, nextFire, nextUuid>>
  /\ UNCHANGED <<pvars, fvars, cvars>>

\* A sweep all of whose callbacks have run is over.
SweepDone(s) ==
  /\ s \in sweeps
  /\ s.phase = "running"
  /\ s.toStat = {}
  /\ s.toUnlink = {}
  /\ sweeps' = Dropped(sweeps, s)
  /\ UNCHANGED <<clock, files, requests, pendingUnlinks, fired, nextFire, nextUuid,
                 sweepLog, faults>>
  /\ UNCHANGED <<pvars, fvars, cvars>>

\* setInterval(cleanupTempFiles, cleanupInterval): the timer fires.
TimerFire ==
  /\ clock = nextFire
  /\ fired < MaxSweeps
  /\ fired' = fired + 1
  /\ nextFire' = nextFire + cleanupInterval
  /\ sweeps' = sweeps \cup
       {[id |-> fired + 1, phase |-> "readdir", now |-> 0, toStat |-> {}, toUnlink |-> {}]}
  /\ UNCHANGED <<clock, files, requests, pendingUnlinks, nextUuid, sweepLog, faults>>
  /\ UNCHANGED <<pvars, fvars, cvars>>

\* Time passes: not beyond the next firing of the timer, and not while a
\* filesystem callback is due (callbacks take milliseconds).
Tick ==
  /\ sweeps = {}
  /\ pendingUnlinks = {}
  /\ clock + TickStep <= nextFire
  /\ clock' = clock + TickStep
  /\ UNCHANGED <<files, requests, pendingUnlinks, sweeps, fired, nextFire, nextUuid,
                 sweepLog, faults>>
  /\ UNCHANGED <<pvars, fvars, cvars>>

NextLifecycle ==
  \/ UploadArrives
  \/ Base64Arrives
  \/ Base64Rejected
  \/ \E r \in 1..Len(requests) : Process(r)
  \/ \E r \in 1..Len(requests) : OpenStream(r)
  \/ \E r \in 1..Len(requests) : StreamEnd(r)
  \/ \E p \in pendingUnlinks : RouteUnlink(p)
  \/ \E s \in sweeps : SweepReaddir(s)
  \/ \E s \in sweeps : \E p \in s.toStat : SweepStat(s, p)
  \/ \E s \in sweeps : \E p \in s.toUnlink : SweepUnlink(s, p)
  \/ \E s \in sweeps : SweepDone(s)
  \/ TimerFire
  \/ Tick

SpecLifecycle == Init /\ [][NextLifecycle]_vars

SpecClient == Init /\ [][NextClient]_vars

\* Requests to the base64 route handled concurrently.
NextConcurrent ==
  \/ Base64ArrivesAlongside
  \/ \E r \in 1..Len(requests) : Process(r)
  \/ \E r \in 1..Len(requests) : OpenStream(r)
  \/ \E r \in 1..Len(requests) : StreamEnd(r)
  \/ \E p \in pendingUnlinks : RouteUnlink(p)

SpecConcurrent == Init /\ [][NextConcurrent]_vars

\* ------------------------------------------- the sweep, called in succession

\* cleanupTempFiles() is called again, right after the call at startup or any
\* time later: the function returns nothing its caller could wait for, so the
\* callbacks of the earlier call may or may not have run.  No time passes and
\* no request arrives.
CleanupTempFilesAgain ==
  /\ fired < MaxCalls
  /\ fired' = fired + 1
  /\ sweeps' = sweeps \cup
       {[id |-> fired + 1, phase |-> "readdir", now |-> 0, toStat |-> {}, toUnlink |-> {}]}
  /\ UNCHANGED <<clock, files, requests, pendingUnlinks, nextFire, nextUuid, sweepLog,
                 faults>>
  /\ UNCHANGED <<pvars, fvars, cvars>>

NextSuccession ==
  \/ CleanupTempFilesAgain
  \/ \E s \in sweeps : SweepReaddir(s)
  \/ \E s \in sweeps : \E p \in s.toStat : SweepStat(s, p)
  \/ \E s \in sweeps : \E p \in s.toUnlink : SweepUnlink(s, p)
  \/ \E s \in sweeps : SweepDone(s)

SpecSuccession == Init /\ [][NextSuccession]_vars

\* ----------------------------------------- the pure functions, on their own

\* intensity: number, 1-10 (interface AdversarialSettings).
IntensityRange == 1..10

\* The nine named positions, and one that is none of them.
Anchors ==
  { "top-left", "top-center", "top-right",
    "middle-left", "middle-center", "middle-right",
    "bottom-left", "bottom-center", "bottom-right" }

\* Position strings that are none of the nine: the preset seeded as "center",
\* an empty field, a misspelt anchor.
OtherPositions == {"center", "", "Top-Left"}

ClientPositionInputs ==
  [fn : {"clientPosition"}, position : Anchors \cup OtherPositions,
   width : {2, 101}, height : {1, 75}, fontSize : {12, 24}, textWidth : {10, 15}]

AmplitudeInputs == [fn : {"noiseAmplitude"}, intensity : IntensityRange]

PositionInputs ==
  [fn : {"position"}, position : Anchors \cup OtherPositions,
   width : {2, 100, 101}, height : {1, 75, 100}, fontSize : {12, 24}, text : Texts]

GeneratorInputs ==
  UNION { [fn : {"generator"}, method : {m}, width : {w}, height : {h}, channels : {c},
           intensity : IntensityRange, stream : Streams(m, w * h * c)] :
          m \in Methods, w \in 1..MaxWidth, h \in 1..MaxHeight, c \in {1, 3, 4} }

InitFunctions ==
  /\ InitPipeline
  /\ InitLifecycle
  /\ InitClient
  /\ args \in AmplitudeInputs \cup PositionInputs \cup ClientPositionInputs
              \cup GeneratorInputs
  /\ result = NotApplied

Applying(fn) == args.fn = fn /\ ~result.applied

\* const noiseAmplitude = (settings.intensity / 10) * 0.019 + 0.001
ApplyNoiseAmplitude ==
  /\ Applying("noiseAmplitude")
  /\ result' = Returned(noiseAmplitude(args.intensity))
  /\ UNCHANGED <<args, pvars, lvars, cvars>>

\* x="${getXPosition(position, width, fontSize * text.length * 0.5)}"
\* y="${getYPosition(position, height, fontSize)}"
ApplyGetPosition ==
  /\ Applying("position")
  /\ result' =
       Returned(<<getXPosition(args.position, args.width, args.fontSize * Len(args.text)),
                  getYPosition(args.position, args.height, args.fontSize)>>)
  /\ UNCHANGED <<args, pvars, lvars, cvars>>

\* switch (watermarkSettings.position) of addWatermarkToCanvas.
ApplyClientPosition ==
  /\ Applying("clientPosition")
  /\ result' = Returned(clientPosition(args.position, args.width, args.height,
                                        args.textWidth, args.fontSize))
  /\ UNCHANGED <<args, pvars, lvars, cvars>>

ApplyGenerator(method) ==
  /\ Applying("generator")
  /\ args.method = method
  /\ result' =
       LET amplitude == noiseAmplitude(args.intensity) IN
       Returned(
         CASE method = "gaussian" ->
                generateGaussianNoise(args.width, args.height, args.channels, amplitude,
                                      args.stream)
           [] method = "uniform" ->
                generateUniformNoise(args.width, args.height, args.channels, amplitude,
                                     args.stream)
           [] method = "perlin" ->
                generatePerlinNoise(args.width, args.height, args.channels, amplitude))
  /\ UNCHANGED <<args, pvars, lvars, cvars>>

ApplyGaussian == ApplyGenerator("gaussian")

ApplyUniform == ApplyGenerator("uniform")

ApplyPerlin == ApplyGenerator("perlin")

NextFunctions ==
  \/ ApplyNoiseAmplitude
  \/ ApplyGetPosition
  \/ ApplyClientPosition
  \/ ApplyGaussian
  \/ ApplyUniform
  \/ ApplyPerlin

SpecFunctions == InitFunctions /\ [][NextFunctions]_vars

\* ========================================================== properties

CopyrightTag == <<"Copyright", "DO NOT USE FOR AI TRAINING">>

\* C1: every successful run of processImage with metadata protection enabled
\* and no stage error writes an output whose metadata container holds
\* Copyright = "DO NOT USE FOR AI TRAINING", noise enabled or not.
C1_CopyrightTagInOutput ==
  (pc = "done" /\ call.addExifProtection /\ fault = {})
    => CopyrightTag \in output.bytes.exif.tags

\* C2: processImage fails towards its caller only when the source cannot be
\* decoded; a watermark rendering failure (here with the metadata encoder
\* sound) is never reported as a failure of the run.
C2_OnlyDecodeFailureIsFatal ==
  (pc = "failed" /\ "exif-encode" \notin fault) => ~call.imagePath.decodable

\* C3: with metadata protection disabled the output's metadata container is
\* the source's: the same tags, or none if the source had none.
C3_ContainerUntouchedWhenDisabled ==
  (pc = "done" /\ ~call.addExifProtection)
    => output.bytes.exif = call.imagePath.exif

C5_MetadataErrorNeverFatal ==
  (fault # {} /\ fault \subseteq {"exif-sync", "exif-encode"}) => pc # "failed"

StageRank(s) ==
  CASE s = "Decoded" -> 1
    [] s = "Watermarked" -> 2
    [] s = "MetadataTagged" -> 3
    [] s = "Noised" -> 4
    [] s = "Encoded" -> 5

\* C6 as claimed: the stages of a run happen in the fixed order Decoded,
\* Watermarked, MetadataTagged, Noised, Encoded, none of them twice.
C6_FixedOrderNoisedBeforeEncoded ==
  \A i, j \in 1..Len(stages) : i < j => StageRank(stages[i]) < StageRank(stages[j])

IsPrefix(s, t) == Len(s) <= Len(t) /\ SubSeq(t, 1, Len(s)) = s

\* C6 as amended: the stages happen in the order Decoded, Watermarked,
\* MetadataTagged, Encoded; a run whose noise flag is on then passes Noised,
\* on the encoded bytes, and encodes once more when the noise was applied; a
\* run whose noise flag is off never passes Noised; Decoded, Watermarked,
\* MetadataTagged and Noised happen at most once and noise never precedes the
\* watermark and metadata stages.
C6_OrderEncodedThenNoised ==
  /\ IsPrefix(stages,
       IF call.adversarialSettings.given /\ call.adversarialSettings.enabled
       THEN <<"Decoded", "Watermarked", "MetadataTagged", "Encoded", "Noised", "Encoded">>
       ELSE <<"Decoded", "Watermarked", "MetadataTagged", "Encoded">>)
  /\ pc = "done" =>
       /\ Len(stages) >= 4
       /\ (call.adversarialSettings.given /\ call.adversarialSettings.enabled)
            => Len(stages) = (IF noiseRun.applied THEN 6 ELSE 5)

C6_Witness ==
  /\ pc = "done"
  /\ stages = <<"Decoded", "Watermarked", "MetadataTagged", "Encoded", "Noised", "Encoded">>
  /\ call.watermarkSettings.text = <<>>
  /\ ~call.addExifProtection

\* The text the requester asked for: the argument of a direct call, the
\* form field of a request to the route.
RequestedText ==
  IF call.via = "process-image" THEN call.body.text ELSE call.watermarkSettings.text

\* C7: when the requested watermark text is empty nothing is composited, in
\* a direct call and in a request through /api/process-image alike.
C7_EmptyTextNoCompositing ==
  (RequestedText = <<>>) => image.composite = <<>>

\* C8: when noise is disabled, or no noise settings are given, no generator
\* is invoked, no amplitude is computed, and the bytes written are the
\* encoding of the pre-noise image.
C8_NoNoiseWhenDisabled ==
  (pc \in {"Final", "done"} /\ ~(call.adversarialSettings.given /\ call.adversarialSettings.enabled))
    => /\ noiseRun.invoked = {}
       /\ noiseRun.amplitude = 0
       /\ finalImageBuffer = EncodeStage(image, initialMetadata, FALSE)
       /\ pc = "done" => output.bytes = EncodeStage(image, initialMetadata, FALSE)

C8_Witness ==
  /\ pc = "done"
  /\ call.adversarialSettings.given
  /\ ~call.adversarialSettings.enabled
  /\ call.watermarkSettings.text = <<"X">>
  /\ output.written
  /\ output.bytes.marks # <<>>

\* C9 as claimed: a sweep deletes an entry of the temp directory if and only
\* if its age, the sweep's now minus the entry's mtime, strictly exceeds the
\* expiry threshold.
C9_DeletedIffExpired ==
  \A e \in sweepLog :
    e.present => ((e.outcome = "deleted") <=> (e.age > expirationTime))

\* C9 as amended: a sweep issues the delete of an entry if and only if the
\* stat of the entry succeeds and its age strictly exceeds the threshold, and
\* the entry is removed when that unlink succeeds; an entry whose age is at
\* or below the threshold is never deleted by a sweep.
C9_DeleteIssuedIffExpired ==
  \A e \in sweepLog :
    /\ e.outcome = "deleted" => e.age > expirationTime
    /\ e.outcome = "kept" => e.age <= expirationTime
    /\ (e.outcome = "unlink-error" /\ e.present) => e.age > expirationTime
    /\ e.outcome = "deleted" => e.path \notin DOMAIN files

C9_Witness ==
  \E d, k \in sweepLog :
    /\ d.sweep = k.sweep
    /\ d.outcome = "deleted" /\ d.age = expirationTime + TickStep
    /\ k.outcome = "kept" /\ k.age = expirationTime

\* C10: every artifact on disk is deleted no later than the 12-hour expiry
\* plus one sweep interval after its last modification, whether the request
\* that created it succeeded or failed (stated here for the runs in which no
\* filesystem fault is raised and every request has been answered).
C10_EveryArtifactAgedOut ==
  (/\ faults = 0
   /\ \A r \in 1..Len(requests) :
        requests[r].phase \in {"failed", "ended", "rejected", "stream-error"})
  =>
    \A p \in DOMAIN files :
      clock - files[p].mtime <= expirationTime + cleanupInterval

ListedAndPresent(s) ==
  { p \in DOMAIN files : p.dir = tempDir /\ files[p].mtime < s.now }

LoggedOutcomes == {"kept", "deleted", "stat-error", "unlink-error", "readdir-error"}

\* C12: within one sweep a failing stat or unlink is logged and skipped and
\* stops no other entry from being examined and, if expired, deleted: every
\* entry the sweep listed has its stat or unlink still due or its outcome
\* logged, an expired entry is left on disk only by an error on that very
\* entry, at most one entry per fault; and every filesystem error of the
\* sweep (list, stat, delete) ends as a log line, the sweep going on.
C12_FailureSkipsOnlyItsEntry ==
  /\ \A e \in sweepLog : e.outcome \in LoggedOutcomes
  /\ \A s \in sweeps :
       /\ s.phase \in {"readdir", "running"}
       /\ s.phase = "running" =>
            \/ \E e \in sweepLog : e.sweep = s.id /\ e.outcome = "readdir-error"
            \/ LET left == { p \in ListedAndPresent(s) :
                               p \notin s.toStat /\ p \notin s.toUnlink }
                   Outcomes(p) == { e.outcome : e \in { x \in sweepLog :
                                       x.sweep = s.id /\ x.path = p } }
               IN /\ \A p \in left :
                       /\ Outcomes(p) # {}
                       /\ Outcomes(p) \subseteq
                            (IF Expired(s.now - files[p].mtime)
                             THEN {"stat-error", "unlink-error"} ELSE {"kept", "stat-error"})
                  /\ Cardinality({ p \in left :
                       Outcomes(p) \cap {"stat-error", "unlink-error"} # {} }) <= faults

\* A sweep in which the stat or unlink of one expired entry failed and
\* another expired entry was deleted all the same.
C12_Witness ==
  \E s \in sweeps : \E e, d \in sweepLog :
    /\ s.toStat = {} /\ s.toUnlink = {}
    /\ e.sweep = s.id /\ d.sweep = s.id
    /\ e.outcome \in {"stat-error", "unlink-error"} /\ e.present
    /\ e.age > expirationTime
    /\ d.outcome = "deleted"

Artifacts(r) == {requests[r].input, requests[r].output} \ {NoPath}

\* C13: the sweep runs alongside the requests.  It issues the delete of a
\* request's artifact only when more than the expiry threshold has passed
\* since the request arrived, and deletes none younger; when the sweep and the
\* request's own clean-up delete the same file, in either order, the later
\* delete finds the file gone and that is only logged: the sweep goes on and
\* the response, already streamed, stays what it was (a request's own
\* clean-up of a file the sweep lists is issued only once its stream ended).
C13_SweepRacesRequestsSafely ==
  /\ \A s \in sweeps : \A p \in s.toUnlink : \A r \in 1..Len(requests) :
       p \in Artifacts(r) => s.now - requests[r].arrived > expirationTime
  /\ \A e \in sweepLog : \A r \in 1..Len(requests) :
       e.path \in Artifacts(r) =>
         /\ e.outcome \in {"kept", "deleted", "stat-error", "unlink-error"}
         /\ e.outcome = "deleted" =>
              (e.age > expirationTime /\ clock - requests[r].arrived > expirationTime)
         /\ (e.outcome = "unlink-error" /\ ~e.present) =>
              requests[r].phase \in {"ended", "stream-error"}
  /\ \A r \in 1..Len(requests) : \A p \in pendingUnlinks :
       (p.dir = tempDir /\ p \in Artifacts(r)) => requests[r].phase = "ended"

\* The request's clean-up removed its upload first, the sweep's unlink of the
\* same file then found it gone, and the request stays answered.
C13_Witness ==
  \E r \in 1..Len(requests) : \E e \in sweepLog :
    /\ requests[r].phase = "ended"
    /\ e.path = requests[r].input
    /\ e.outcome = "unlink-error" /\ ~e.present

\* C14: every uploaded file and every pipeline output is in the one temp
\* directory under a name that embeds a fresh identifier; no output has the
\* path of its input, a failed run has written no output, and an output on
\* disk holds what processImage wrote for its request.
C14_ArtifactsInTempDirUnderFreshNames ==
  /\ \A p \in DOMAIN files :
       /\ p.dir = tempDir
       /\ files[p].role \in {"upload", "base64-input", "output"}
            => (p.name[1] \in {"upload", "watermarked"} /\ p.name[2] < nextUuid)
  /\ \A r \in 1..Len(requests) :
       /\ requests[r].output # NoPath => requests[r].output # requests[r].input
       /\ requests[r].phase = "failed" => requests[r].output = NoPath

\* C15: for every integer intensity in 1..10 the amplitude
\* intensity/10*0.019+0.001 lies in [0.001, 0.02] (10 to 200 in units of
\* 1/10000) and is larger than the amplitude of every smaller intensity.
C15_AmplitudeInRangeAndIncreasing ==
  (args.fn = "noiseAmplitude" /\ result.applied) =>
    /\ 10 <= result.value /\ result.value <= 200
    /\ \A smaller \in IntensityRange :
         smaller < args.intensity => noiseAmplitude(smaller) < result.value

C15_Witness ==
  /\ args.fn = "noiseAmplitude"
  /\ args.intensity = 10
  /\ result.applied
  /\ result.value = 200

\* The placement table: the column and the row of each named anchor.
Column(anchor) ==
  CASE anchor \in {"top-left", "middle-left", "bottom-left"} -> "left"
    [] anchor \in {"top-center", "middle-center", "bottom-center"} -> "center"
    [] anchor \in {"top-right", "middle-right", "bottom-right"} -> "right"

Row(anchor) ==
  CASE anchor \in {"top-left", "top-center", "top-right"} -> "top"
    [] anchor \in {"middle-left", "middle-center", "middle-right"} -> "middle"
    [] anchor \in {"bottom-left", "bottom-center", "bottom-right"} -> "bottom"

\* C16: for each of the nine anchors getXPosition and getYPosition return the
\* pair of the placement table: x is 30, width/2 or width - textWidth - 30
\* for the left, center and right column and y is 30 + fontSize, height/2 or
\* height - 30 for the top, middle and bottom row, with textWidth = fontSize *
\* characterCount * 0.5 (all in half pixels here).
C16_PlacementTable ==
  (args.fn = "position" /\ args.position \in Anchors /\ result.applied) =>
    /\ result.value[1] =
         (CASE Column(args.position) = "left" -> 2 * 30
            [] Column(args.position) = "center" -> args.width
            [] Column(args.position) = "right" ->
                 2 * args.width - args.fontSize * Len(args.text) - 2 * 30)
    /\ result.value[2] =
         (CASE Row(args.position) = "top" -> 2 * (30 + args.fontSize)
            [] Row(args.position) = "middle" -> args.height
            [] Row(args.position) = "bottom" -> 2 * args.height - 2 * 30)

C16_Witness ==
  /\ args.fn = "position"
  /\ args.position = "top-right"
  /\ args.width = 101
  /\ args.fontSize = 24
  /\ Len(args.text) = 3
  /\ result.applied
  /\ result.value = <<2 * 101 - 72 - 60, 108>>

CanonicalTags ==
  { <<"Copyright", "DO NOT USE FOR AI TRAINING">>,
    <<"ImageDescription", "This image is not authorized for use in AI training datasets">>,
    <<"Artist", "Protected Content">> }

\* C17: with metadata protection enabled the tags the metadata stage writes
\* are exactly the canonical Copyright, ImageDescription and Artist, and for
\* every key that the server writes and the client's getExifProtectionData
\* reports, the two values are the same.
C17_CanonicalTagsWritten ==
  (pc = "MetadataTagged" /\ call.addExifProtection /\ "exif-sync" \notin fault) =>
    /\ image.exifMerge = CanonicalTags
    /\ \A written \in image.exifMerge : \A reported \in getExifProtectionData :
         written[1] = reported[1] => written[2] = reported[2]

\* C18: when the source carries a metadata container and protection is
\* enabled, the tagged image, as encoded, holds every source tag whose key is
\* not a canonical key, unchanged, and under every canonical key the
\* protection value and nothing else, whether or not the source defined it.
C18_MergeKeepsSourceTagsProtectionWins ==
  (/\ pc = "Encoded"
   /\ call.addExifProtection
   /\ "exif-sync" \notin fault
   /\ call.imagePath.exif.present)
  =>
    /\ \A tag \in call.imagePath.exif.tags :
         tag[1] \notin Keys(ProtectionTags) => tag \in encoded.exif.tags
    /\ \A tag \in encoded.exif.tags :
         tag[1] \in Keys(ProtectionTags) => tag \in ProtectionTags
    /\ ProtectionTags \subseteq encoded.exif.tags

C18_Witness ==
  /\ pc = "Encoded"
  /\ call.addExifProtection
  /\ call.imagePath.exif = ExifWithOwner
  /\ <<"Make", "Canon">> \in encoded.exif.tags
  /\ <<"Copyright", "DO NOT USE FOR AI TRAINING">> \in encoded.exif.tags
  /\ <<"Copyright", "Alice">> \notin encoded.exif.tags

\* C19: a request to /api/process-image with adversarialEnabled = true, an
\* adversarialIntensity in 1..10 and an adversarialMethod has its noise
\* settings passed to processImage, and the image it is answered with went
\* through the noise stage.
C19_RoutePassesNoiseSettings ==
  (/\ call.via = "process-image"
   /\ pc = "done"
   /\ call.body.adversarialEnabled = "true"
   /\ parseInt(call.body.adversarialIntensity) \in IntensityRange
   /\ call.body.adversarialMethod \in Methods)
  =>
    /\ NoiseRequested(call.adversarialSettings)
    /\ noiseRun.applied

\* The rounded perturbation of sample i (from 1) in the call held by args.
RoundedPerturbation(i) ==
  LET amplitude == noiseAmplitude(args.intensity) IN
  CASE args.method = "gaussian" -> GaussianValue(args.stream[i], amplitude)
    [] args.method = "uniform" ->
         MathRound((2 * args.stream[i] - RandDen) * amplitude * 255, RandDen * 10000)
    [] args.method = "perlin" ->
         MathRound(PerlinValue(((i - 1) \div args.channels) % args.width,
                               ((i - 1) \div args.channels) \div args.width)
                     * amplitude * 255,
                   100000000)

\* C20: each of the three generators returns width * height * channels
\* samples, every one an integer in 0..255 that is the rounded perturbation
\* clamped to [-128, 127] plus the bias 128.
C20_GeneratorSamplesBiasedAndClamped ==
  (args.fn = "generator" /\ result.applied) =>
    /\ Len(result.value) = args.width * args.height * args.channels
    /\ \A i \in 1..Len(result.value) :
         /\ result.value[i] \in 0..255
         /\ result.value[i] =
              (IF RoundedPerturbation(i) < -128 THEN -128
               ELSE IF RoundedPerturbation(i) > 127 THEN 127
               ELSE RoundedPerturbation(i)) + 128

\* A gaussian call whose draws overflow the clamp in both directions, and a
\* call on a four-channel raster.
C20_Witness ==
  /\ args.fn = "generator"
  /\ args.method = "gaussian"
  /\ args.channels = 4
  /\ args.width = MaxWidth
  /\ result.applied
  /\ Len(result.value) = MaxWidth * args.height * 4
  /\ \E i \in 1..Len(result.value) : result.value[i] = 255 /\ args.stream[i] > 1000

\* C21: the perlin generator is deterministic and channel-uniform: a second
\* call with the same arguments returns the same buffer, and the sample at
\* index (y*width + x)*channels + c is the one any other call with the same
\* amplitude gives pixel (x, y), whatever its width, its channel count and c.
C21_PerlinDeterministicChannelUniform ==
  (args.fn = "generator" /\ args.method = "perlin" /\ result.applied) =>
    LET amplitude == noiseAmplitude(args.intensity) IN
    /\ result.value =
         generatePerlinNoise(args.width, args.height, args.channels, amplitude)
    /\ \A w \in 1..MaxWidth : \A ch \in {1, 3, 4} :
         LET other == generatePerlinNoise(w, args.height, ch, amplitude) IN
         \A x \in 0..(Min(w, args.width) - 1) : \A y \in 0..(args.height - 1) :
           \A c \in 0..(args.channels - 1) : \A d \in 0..(ch - 1) :
             result.value[(y * args.width + x) * args.channels + c + 1]
               = other[(y * w + x) * ch + d + 1]

\* A three-channel buffer in which a pixel is perturbed and another is not.
C21_Witness ==
  /\ args.fn = "generator"
  /\ args.method = "perlin"
  /\ args.channels = 3
  /\ args.width = MaxWidth
  /\ result.applied
  /\ \E i, j \in 1..Len(result.value) : result.value[i] = 128 /\ result.value[j] > 128

\* C22: generateAdversarialNoise never throws: when the dimensions are
\* unavailable or an error occurs while the noise is synthesised or
\* composited, the run goes on, the buffer returned is exactly the buffer
\* given (the encoded image) and processImage writes it as the output.
C22_NoiseFailureReturnsGivenBuffer ==
  ("noise" \in fault) =>
    /\ pc \in {"Final", "done"}
    /\ ~noiseRun.applied
    /\ finalImageBuffer = encoded
    /\ pc = "done" => (output.written /\ output.bytes = encoded)

C22_Witness ==
  /\ pc = "done"
  /\ "noise" \in fault
  /\ call.adversarialSettings.enabled
  /\ call.watermarkSettings.text = <<"X">>
  /\ output.written
  /\ output.bytes = encoded
  /\ output.bytes.marks # <<>>

Abs(v) == IF v < 0 THEN -v ELSE v

\* C23: when noise is applied each sample of the result differs from the
\* sample before the noise by no more than the magnitude of its signed
\* perturbation: at most round(amplitude * 255) for the uniform method, and
\* not at all where the perturbation is zero, as it is for every sample of
\* the perlin method on the rasters modelled here.
C23_NoiseWithinPerturbation ==
  (pc \in {"Final", "done"} /\ noiseRun.applied) =>
    \A i \in 1..Len(encoded.samples) :
      /\ noiseRun.invoked = {"uniform"} =>
           Abs(finalImageBuffer.samples[i] - encoded.samples[i])
             <= MathRound(noiseRun.amplitude * 255, 10000)
      /\ noiseRun.invoked = {"perlin"} =>
           finalImageBuffer.samples[i] = encoded.samples[i]

\* C24: the defenses are independent: for the source and the non-empty
\* watermark spec of the call, what the watermark stage composites is what it
\* would composite with the metadata flag the other way.
C24_WatermarkIndependentOfMetadataFlag ==
  (pc = "Watermarked" /\ call.watermarkSettings.text # <<>> /\ ~call.exifOnlyMode) =>
    image.composite =
      WatermarkStage(Sharp(call.imagePath), initialMetadata, call.watermarkSettings,
                     ~call.addExifProtection, call.exifOnlyMode).composite

\* C25: the client-side path preserves the format class: the blob that
\* createDownloadableImage makes on the client (no server blob taking its
\* place) is encoded as the type of the file, image/png for a PNG file and
\* image/jpeg for a JPEG file.
C25_ClientKeepsFormatClass ==
  (/\ clientCall.fn = "createDownloadableImage"
   /\ clientPc = "resolved"
   /\ blob.origin = "client")
  => blob.type = clientCall.file.type

\* C26: createDownloadableImage revokes the object URL it created exactly
\* once on every path, and not before it settles; when the fetch of the
\* server step throws, answers with a status that is not OK, or gives an
\* empty blob, the promise resolves with the blob made on the client; a
\* server blob is used only when the response is OK and not empty.
C26_RevokedOnceFallbackToClientBlob ==
  clientCall.fn = "createDownloadableImage" =>
    LET url == clientCall.imageUrl
        timesRevoked == Cardinality({ i \in 1..Len(revoked) : revoked[i] = url })
    IN /\ clientPc \in {"resolved", "rejected"} => (url \notin liveUrls /\ timesRevoked = 1)
       /\ clientPc \notin {"resolved", "rejected"} => (url \in liveUrls /\ timesRevoked = 0)
       /\ response \in {"throws", "not-ok", "ok-empty"} =>
            (clientPc \in {"returning", "resolved"} /\ blob.origin = "client" /\ blob.present)
       /\ blob.origin = "server" => (response = "ok-blob" /\ blob.size > 0)
       /\ clientPc = "resolved" => blob.present

C26_Witness ==
  /\ clientCall.fn = "createDownloadableImage"
  /\ clientPc = "resolved"
  /\ response = "ok-empty"
  /\ blob.origin = "client"
  /\ revoked = <<createObjectURL(0), createObjectURL(1)>>
  /\ liveUrls = {}

\* C27: two requests to /api/process-image-base64 handled concurrently never
\* have the same temporary input path, and the input file of each lies in the
\* swept temp directory.
C27_Base64InputsApartAndSwept ==
  \A r \in 1..Len(requests) :
    (requests[r].route = "process-image-base64" /\ requests[r].input # NoPath) =>
      /\ requests[r].input.dir = tempDir
      /\ \A q \in 1..Len(requests) : q # r => requests[q].input # requests[r].input

\* Whether path p has been on disk ever since it was written: it is there,
\* or the time for a sweep to have removed it has passed.
KeptByRoute(r, p) == p \in DOMAIN files \/ clock - requests[r].arrived > expirationTime

\* C28: in /api/process-image the route deletes neither the output nor the
\* upload before the response stream has ended; once it has ended the unlink
\* of both is issued by the route; when processing fails the route answers
\* 500 and deletes nothing, the upload staying in the temp directory for a
\* sweep to remove.
C28_RouteDeletesOnlyAfterStreamEnd ==
  \A r \in 1..Len(requests) :
    requests[r].route = "process-image" =>
      /\ requests[r].input.dir = tempDir
      /\ requests[r].phase \in {"received", "processed", "streaming", "failed",
                                "stream-error"} =>
           \A p \in Artifacts(r) : p \notin pendingUnlinks /\ KeptByRoute(r, p)
      /\ requests[r].phase = "ended" =>
           \A p \in Artifacts(r) : p \in pendingUnlinks \/ p \notin DOMAIN files
      /\ requests[r].phase = "failed" => requests[r].output = NoPath

\* A request answered and cleaned up, and one that failed and left its upload.
C28_Witness ==
  \E r \in 1..Len(requests) :
    /\ requests[r].route = "process-image"
    /\ requests[r].phase = "ended"
    /\ requests[r].output # NoPath
    /\ pendingUnlinks = {}
    /\ requests[r].input \notin DOMAIN files
    /\ requests[r].output \notin DOMAIN files
    /\ clock - requests[r].arrived < expirationTime

MimeType(format) == IF format = "png" THEN "image/png" ELSE "image/jpeg"

\* C29: the Content-Type a processing route declares is the encoding of the
\* bytes it streams: image/png for a PNG artifact, image/jpeg for a JPEG one.
C29_ContentTypeMatchesBytes ==
  (call.via = "process-image" /\ pc = "done") =>
    ResponseContentType(output) = MimeType(output.bytes.format)

\* C30: a position that is none of the nine named anchors is placed as
\* bottom-right: getXPosition returns width - textWidth - 30 and getYPosition
\* height - 30, the client's switch takes the same default, and the call
\* returns a position whatever the string.
C30_UnknownPositionIsBottomRight ==
  (args.fn \in {"position", "clientPosition"} /\ args.position \notin Anchors) =>
    /\ ENABLED (ApplyGetPosition \/ ApplyClientPosition) \/ result.applied
    /\ (result.applied /\ args.fn = "position") =>
         /\ result.value = <<2 * args.width - args.fontSize * Len(args.text) - 2 * 30,
                             2 * args.height - 2 * 30>>
         /\ result.value =
              <<getXPosition("bottom-right", args.width, args.fontSize * Len(args.text)),
                getYPosition("bottom-right", args.height, args.fontSize)>>
    /\ (result.applied /\ args.fn = "clientPosition") =>
         /\ result.value = <<2 * (args.width - args.textWidth - 30),
                             2 * (args.height - 30)>>
         /\ result.value = clientPosition("bottom-right", args.width, args.height,
                                          args.textWidth, args.fontSize)

C30_Witness ==
  /\ args.fn = "position"
  /\ args.position = "center"
  /\ args.width = 100 /\ args.height = 75
  /\ args.fontSize = 12 /\ Len(args.text) = 1
  /\ result.applied
  /\ result.value = <<200 - 12 - 60, 150 - 60>>

====
